---- MODULE Spec2Model ----
(***************************************************************************)
(* Demand paging and swap subsystem of the xv6 kernel extension            *)
(* (pageswap.c): swap slot table, eviction and fault-in paths, victim      *)
(* selection and the adaptive replacement controller.                      *)
(***************************************************************************)
EXTENDS Integers, Naturals, Sequences, FiniteSets, TLC

(***************************************************************************)
(* Bounds of the model.  The kernel has 800 swap slots, NPROC process      *)
(* table entries and a user address space of KERNBASE / PGSIZE pages;      *)
(* the model keeps the same code over smaller tables.                      *)
(***************************************************************************)
NSLOTS == 2

NPROC == 3

NPAGES == 4

NFRAMES == 14

NTHREADS == 2

(***************************************************************************)
(* Program constants.                                                      *)
(***************************************************************************)
ThresholdInit == 100

NpagesInit == 4

alpha == 25

beta == 10

limit == 100

SWAPBASE == 2

NBLK == 8

PTE_P == 1

PTE_W == 2

PTE_U == 4

PTE_A == 32

PTE_D == 64

PGSIZE == 4096

KERNBASE == NPAGES * PGSIZE

\* walkpgdir(pgdir, va, 0) returning a null pointer: no leaf entry for va
NoPTE == -1

\* kfree() fills the released frame with junk
JUNK == 9

Slots == 0 .. (NSLOTS - 1)

Procs == 0 .. (NPROC - 1)

\* page numbers of the page table: user pages, then one kernel page
PageNos == 0 .. NPAGES

UserPageNos == 0 .. (NPAGES - 1)

Frames == 1 .. NFRAMES

Blk == 0 .. (NBLK - 1)

BlockNos == SWAPBASE .. (SWAPBASE + NBLK * NSLOTS - 1)

Threads == 1 .. NTHREADS

VARIABLES
  swap_area,       \* swap_area.slots: slot -> [page_perm, is_free]
  disk,            \* block device 0: block number -> block contents
  pgdir,           \* per process: page number -> leaf PTE (NoPTE: no leaf)
  physmem,         \* frame -> the 8 BSIZE pieces of its contents
  freelist,        \* kmem.freelist, head first
  ptable,          \* ptable.proc: entry -> [state, pid, rss]
  threshold,
  npages_to_swap,
  snap,            \* history: per page, its flags and contents when swapout evicted it
  last,            \* history: the last operation, what it returned, the swapout calls
                   \* and evictions it made, the calls of swappageout its swapout
                   \* calls made, whether findpage cleared accessed bits,
                   \* the threshold it started from
  lock,            \* swap_area.lock: 0 when free, else the holding thread
  pc,              \* per thread: position in findslot / freeslot
  idx,             \* per thread: loop variable i of findslot, or freeslot's argument
  holder,          \* history: slot -> the thread findslot last returned it to (0: released)
  loc              \* per thread: the local variables of the call it is in

vars == << swap_area, disk, pgdir, physmem, freelist, ptable, threshold,
           npages_to_swap, snap, last, lock, pc, idx, holder, loc >>

kvars == << swap_area, disk, pgdir, physmem, freelist, ptable, threshold,
            npages_to_swap, snap, last >>

tvars == << lock, pc, idx, holder, loc >>

(***************************************************************************)
(* Bit operations on page table entries (b is a power of two).             *)
(***************************************************************************)
HasBit(x, b) == (x \div b) % 2 = 1

ClearBit(x, b) == IF HasBit(x, b) THEN x - b ELSE x

SetBit(x, b) == IF HasBit(x, b) THEN x ELSE x + b

\* *pte & 0xFFF
PTE_FLAGS(pte) == pte % PGSIZE

\* *pte & ~0xFFF
PTE_ADDR(pte) == (pte \div PGSIZE) * PGSIZE

PGROUNDDOWN(a) == (a \div PGSIZE) * PGSIZE

\* the frame whose physical address is pa (P2V(pa) names its kernel image)
P2V(pa) == pa \div PGSIZE

V2P(frame) == frame * PGSIZE

walkpgdir(pgd, va) == pgd[va \div PGSIZE]

JunkPage == [i \in Blk |-> JUNK]

\* no eviction of the page is on record
NoSnap == [flags |-> 0, data |-> JunkPage]

\* F applied to the value of v, with v evaluated once
Let1(v, F(_)) == CHOOSE y \in { F(x) : x \in {v} } : TRUE

(***************************************************************************)
(* Frame allocator (external collaborator): a LIFO free list.              *)
(***************************************************************************)
kalloc(k) ==
  IF k.freelist = << >>
    THEN [k |-> k, mem |-> 0]
    ELSE [k |-> [k EXCEPT !.freelist = Tail(k.freelist)], mem |-> Head(k.freelist)]

kfree(k, frame) ==
  [k EXCEPT !.freelist = << frame >> \o k.freelist,
            !.physmem[frame] = JunkPage]

countpages(k) == Len(k.freelist)

\* mappages(pgdir, va, PGSIZE, pa, perm): the leaf exists, so it is overwritten
mappages(k, p, va, pa, perm) ==
  [k |-> [k EXCEPT !.pgdir[p][va \div PGSIZE] = pa + SetBit(perm, PTE_P)], ret |-> 0]

(***************************************************************************)
(* Slot table.                                                             *)
(***************************************************************************)
\* 0 <= i < NSLOTS for the slot table s: the table has one entry per slot, so
\* its index set is the range of every loop and bounds test over the slots
InTable(s, i) == i \in DOMAIN s

RECURSIVE ScanSlots(_, _)
ScanSlots(s, i) ==
  IF ~InTable(s, i) THEN -1
  ELSE IF s[i].is_free = 1 THEN i
  ELSE ScanSlots(s, i + 1)

findslot(k) ==
  Let1(ScanSlots(k.swap_area, 0), LAMBDA i :
    IF i < 0 THEN [k |-> k, ret |-> -1]
    ELSE [k |-> [k EXCEPT !.swap_area[i].is_free = 0], ret |-> i])

freeslot(k, slot_index) ==
  IF ~InTable(k.swap_area, slot_index) THEN k
  ELSE [k EXCEPT !.swap_area[slot_index] = [page_perm |-> 0, is_free |-> 1]]

(***************************************************************************)
(* Victim selection.                                                       *)
(***************************************************************************)
\* one iteration of the loop of findproc on table entry i; acc = <<victim, max_rss>>
\* the comparison without its tie-break: the first entry at the largest rss wins
FindProcStepFirst(pt, acc, i) ==
  IF pt[i].state = "UNUSED" \/ pt[i].pid < 1 THEN acc
  ELSE IF pt[i].rss > acc[2] THEN << i, pt[i].rss >>
       ELSE acc

FindProcStep(pt, acc, i) ==
  IF pt[i].state = "UNUSED" \/ pt[i].pid < 1 THEN acc
  ELSE IF pt[i].rss > acc[2]
          \/ (pt[i].rss = acc[2] /\ acc[1] # -1 /\ pt[i].pid < pt[acc[1]].pid)
       THEN << i, pt[i].rss >>
       ELSE acc

RECURSIVE FindProcLoop(_, _, _)
FindProcLoop(pt, acc, i) ==
  IF i >= NPROC THEN acc
  ELSE Let1(FindProcStep(pt, acc, i), LAMBDA acc1 : FindProcLoop(pt, acc1, i + 1))

\* index of the victim's table entry, -1 for a null pointer
findproc(pt) == FindProcLoop(pt, << -1, 0 >>, 0)[1]

\* the test shared by the three loops of findpage
Candidate(pte) == pte # NoPTE /\ HasBit(pte, PTE_P) /\ HasBit(pte, PTE_U)

\* the first loop without its test of the accessed bit
RECURSIVE FirstPassAny(_, _)
FirstPassAny(pgd, i) ==
  IF i >= KERNBASE THEN -1
  ELSE IF Candidate(walkpgdir(pgd, i)) THEN i
  ELSE FirstPassAny(pgd, i + PGSIZE)

RECURSIVE FirstPass(_, _)
FirstPass(pgd, i) ==
  IF i >= KERNBASE THEN -1
  ELSE IF Candidate(walkpgdir(pgd, i)) /\ ~HasBit(walkpgdir(pgd, i), PTE_A) THEN i
  ELSE FirstPass(pgd, i + PGSIZE)

\* the clearing loop without its test of P and U
ResetAccessedAll(pgd) ==
  [n \in DOMAIN pgd |->
     IF n * PGSIZE < KERNBASE /\ pgd[n] # NoPTE THEN ClearBit(pgd[n], PTE_A)
     ELSE pgd[n]]

ResetAccessed(pgd) ==
  [n \in DOMAIN pgd |->
     IF n * PGSIZE < KERNBASE /\ Candidate(pgd[n]) THEN ClearBit(pgd[n], PTE_A)
     ELSE pgd[n]]

RECURSIVE SecondPass(_, _)
SecondPass(pgd, i) ==
  IF i >= KERNBASE THEN -1
  ELSE IF Candidate(walkpgdir(pgd, i)) THEN i
  ELSE SecondPass(pgd, i + PGSIZE)

\* [pa, va, pgd]: the return value, *va_out (-1 when not written) and the
\* page table after the call
findpage(pgd) ==
  Let1(FirstPass(pgd, 0), LAMBDA a :
    IF a >= 0
      THEN [pa |-> PTE_ADDR(walkpgdir(pgd, a)), va |-> a, pgd |-> pgd]
      ELSE Let1(ResetAccessed(pgd), LAMBDA cleared :
             Let1(SecondPass(cleared, 0), LAMBDA b :
               IF b >= 0
                 THEN [pa |-> PTE_ADDR(walkpgdir(cleared, b)), va |-> b, pgd |-> cleared]
                 ELSE [pa |-> 0, va |-> -1, pgd |-> cleared])))

(***************************************************************************)
(* Eviction path.                                                          *)
(***************************************************************************)
\* the write loop without the advance of the source address by BSIZE per
\* block: every block of the slot receives the first 512 bytes of the page
WritePageFirstBlock(disk0, physmem0, blockno, pa) ==
  [b \in DOMAIN disk0 |->
     IF b >= blockno /\ b < blockno + NBLK THEN physmem0[P2V(pa)][0]
     ELSE disk0[b]]

\* the loop writing the page at pa to the 8 blocks that start at blockno
WritePage(disk0, physmem0, blockno, pa) ==
  [b \in DOMAIN disk0 |->
     IF b >= blockno /\ b < blockno + NBLK THEN physmem0[P2V(pa)][b - blockno]
     ELSE disk0[b]]

\* the loop reading the 8 blocks that start at blockno
ReadPage(disk0, blockno) == [i \in Blk |-> disk0[blockno + i]]

\* swappageout once findslot has returned r
SwapPageOutBody(k, r, p, va, pa) ==
  LET slot_index == r.ret
      blockno == SWAPBASE + slot_index * NBLK
      pte == walkpgdir(r.k.pgdir[p], va)
  IN  IF slot_index < 0 THEN [k |-> k, ret |-> -1]
      ELSE IF pte = NoPTE \/ ~HasBit(pte, PTE_P) THEN [k |-> r.k, ret |-> -1]
      ELSE [k |-> [r.k EXCEPT
                     !.swap_area[slot_index].page_perm = PTE_FLAGS(pte),
                     !.disk = WritePage(r.k.disk, r.k.physmem, blockno, pa),
                     !.pgdir[p][va \div PGSIZE] =
                        slot_index * PGSIZE + ClearBit(PTE_FLAGS(pte), PTE_P)],
            ret |-> 0]

swappageout(k, p, va, pa) ==
  Let1(findslot(k), LAMBDA r : SwapPageOutBody(k, r, p, va, pa))

\* the success branch of the loop of swapout; snap records what left memory
SwapOutSuccess(k0, k, victim, va, pa) ==
  [k EXCEPT !.ptable[victim].rss = @ - 1,
            !.freelist = << P2V(pa) >> \o @,
            !.physmem[P2V(pa)] = JunkPage,
            !.nevicted = @ + 1,
            !.nattempts = @ + 1,
            !.snap[victim][va \div PGSIZE] =
               [flags |-> PTE_FLAGS(walkpgdir(k0.pgdir[victim], va)),
                data |-> k0.physmem[P2V(pa)]]]

\* (variant) the loop of swapout leaving at the first failure of swappageout
RECURSIVE SwapOutLoopBreak(_, _, _, _)
SwapOutLoopBreak(k, victim, swapped, attempts) ==
  IF ~(swapped < k.npages_to_swap /\ attempts < k.npages_to_swap * 2) THEN k
  ELSE
    Let1(findpage(k.pgdir[victim]), LAMBDA f :
      Let1([k EXCEPT !.pgdir[victim] = f.pgd], LAMBDA k1 :
        IF f.pa = 0 THEN k1
        ELSE
          Let1(swappageout(k1, victim, f.va, f.pa), LAMBDA r :
            IF r.ret = 0
              THEN Let1(SwapOutSuccess(k1, r.k, victim, f.va, f.pa), LAMBDA k2 :
                     SwapOutLoopBreak(k2, victim, swapped + 1, attempts + 1))
            ELSE [r.k EXCEPT !.nattempts = @ + 1])))

\* The while loop of swapout.  An iteration that fails and leaves the kernel
\* state as it found it is repeated unchanged until attempts reaches
\* 2 * npages_to_swap, so the loop's result is then the state at hand, with
\* every remaining attempt counted as a call of swappageout.
RECURSIVE SwapOutLoop(_, _, _, _)
SwapOutLoop(k, victim, swapped, attempts) ==
  IF ~(swapped < k.npages_to_swap /\ attempts < k.npages_to_swap * 2) THEN k
  ELSE
    Let1(findpage(k.pgdir[victim]), LAMBDA f :
      Let1([k EXCEPT !.pgdir[victim] = f.pgd], LAMBDA k1 :
        IF f.pa = 0 THEN k1
        ELSE
          Let1(swappageout(k1, victim, f.va, f.pa), LAMBDA r :
            IF r.ret = 0
              THEN Let1(SwapOutSuccess(k1, r.k, victim, f.va, f.pa), LAMBDA k2 :
                     SwapOutLoop(k2, victim, swapped + 1, attempts + 1))
            ELSE IF r.k = k
              THEN [k EXCEPT !.nattempts = @ + (k.npages_to_swap * 2 - attempts)]
            ELSE Let1([r.k EXCEPT !.nattempts = @ + 1], LAMBDA k3 :
                   SwapOutLoop(k3, victim, swapped, attempts + 1)))))

\* (variant) the count of successes starting at 1: the batch is one page short
swapoutFromOne(k) ==
  Let1(findproc(k.ptable), LAMBDA victim :
    Let1([k EXCEPT !.nswapout = @ + 1], LAMBDA k0 :
      IF victim = -1 THEN k0 ELSE SwapOutLoop(k0, victim, 1, 0)))

swapout(k) ==
  Let1(findproc(k.ptable), LAMBDA victim :
    Let1([k EXCEPT !.nswapout = @ + 1], LAMBDA k0 :
      IF victim = -1 THEN k0 ELSE SwapOutLoop(k0, victim, 0, 0)))

(***************************************************************************)
(* Replacement controller.                                                 *)
(***************************************************************************)
\* the decrement rounded up instead of down
NextThresholdCeil(t) ==
  LET d == t - (t * beta + 99) \div 100 IN IF d < 1 THEN 1 ELSE d

NextThreshold(t) ==
  LET d == t - (t * beta) \div 100 IN IF d < 1 THEN 1 ELSE d

NextNpages(n) ==
  LET d == n + (n * alpha) \div 100 IN IF d > limit THEN limit ELSE d

\* the trigger with < in place of <=
checkAswapStrict(k) ==
  IF countpages(k) < k.threshold
    THEN Let1(swapout(k), LAMBDA k1 :
           [k1 EXCEPT !.threshold = NextThreshold(k1.threshold),
                      !.npages_to_swap = NextNpages(k1.npages_to_swap)])
    ELSE k

\* the adaptation applied only when swapout evicted something
checkAswapIfEvicted(k) ==
  IF countpages(k) <= k.threshold
    THEN Let1(swapout(k), LAMBDA k1 :
           IF k1.nevicted = k.nevicted THEN k1
           ELSE [k1 EXCEPT !.threshold = NextThreshold(k1.threshold),
                           !.npages_to_swap = NextNpages(k1.npages_to_swap)])
    ELSE k

checkAswap(k) ==
  IF countpages(k) <= k.threshold
    THEN Let1(swapout(k), LAMBDA k1 :
           [k1 EXCEPT !.threshold = NextThreshold(k1.threshold),
                      !.npages_to_swap = NextNpages(k1.npages_to_swap)])
    ELSE k

(***************************************************************************)
(* Fault-in path.  p is the faulting process: myproc() and owner of pgdir. *)
(***************************************************************************)
\* (variant) a second round of checkAswap() and kalloc() after the first fails
AllocRetryTwice(k) ==
  Let1(kalloc(k), LAMBDA a1 :
    IF a1.mem # 0 THEN a1
    ELSE Let1(checkAswap(k), LAMBDA k1 :
           Let1(kalloc(k1), LAMBDA a2 :
             IF a2.mem # 0 THEN a2
             ELSE Let1(checkAswap(a2.k), LAMBDA k2 : kalloc(k2)))))

\* kalloc(), and on failure checkAswap() and kalloc() again
AllocRetry(k) ==
  Let1(kalloc(k), LAMBDA a1 :
    IF a1.mem # 0 THEN a1
    ELSE Let1(checkAswap(k), LAMBDA k1 : kalloc(k1)))

\* swappage_in from the read of the page on, with frame mem allocated
SwapPageInBody(k, p, page_addr, slot_index, mem) ==
  LET blockno == SWAPBASE + slot_index * NBLK
      perm == SetBit(k.swap_area[slot_index].page_perm, PTE_P)
  IN  Let1([k EXCEPT !.physmem[mem] = ReadPage(k.disk, blockno)], LAMBDA k1 :
        Let1(mappages(k1, p, page_addr, V2P(mem), perm), LAMBDA m :
          IF m.ret < 0 THEN [k |-> kfree(k1, mem), ret |-> -1]
          ELSE Let1(freeslot(m.k, slot_index), LAMBDA k2 :
                 [k |-> [k2 EXCEPT !.ptable[p].rss = @ + 1,
                                   !.snap[p][page_addr \div PGSIZE] = NoSnap],
                  ret |-> 0])))

swappage_in(k, p, va) ==
  LET page_addr == PGROUNDDOWN(va)
      pte == walkpgdir(k.pgdir[p], page_addr)
      slot_index == PTE_ADDR(pte) \div PGSIZE
  IN  IF pte = NoPTE THEN [k |-> k, ret |-> -1]
      ELSE IF HasBit(pte, PTE_P) THEN [k |-> k, ret |-> 0]
      ELSE IF ~InTable(k.swap_area, slot_index)
              \/ k.swap_area[slot_index].is_free = 1 THEN [k |-> k, ret |-> -1]
      ELSE Let1(AllocRetry(k), LAMBDA a :
             IF a.mem = 0 THEN [k |-> a.k, ret |-> -1]
             ELSE SwapPageInBody(a.k, p, page_addr, slot_index, a.mem))

(***************************************************************************)
(* Fork and exit hooks.                                                    *)
(***************************************************************************)
\* findslot(), retried twice, each time after checkAswap()
FindSlotRetry(k) ==
  Let1(findslot(k), LAMBDA r1 :
    IF r1.ret >= 0 THEN r1
    ELSE Let1(checkAswap(r1.k), LAMBDA k1 :
           Let1(findslot(k1), LAMBDA r2 :
             IF r2.ret >= 0 THEN r2
             ELSE Let1(checkAswap(r2.k), LAMBDA k2 : findslot(k2)))))

\* duplicateslot once child_slot is reserved in k
DuplicateBody(k, parent_slot, child_slot) ==
  LET parent_blockno == SWAPBASE + parent_slot * NBLK
      child_blockno == SWAPBASE + child_slot * NBLK
  IN  [k |-> [k EXCEPT
                !.swap_area[child_slot].page_perm = k.swap_area[parent_slot].page_perm,
                !.disk = [b \in DOMAIN k.disk |->
                   IF b >= child_blockno /\ b < child_blockno + NBLK
                     THEN k.disk[parent_blockno + (b - child_blockno)]
                     ELSE k.disk[b]]],
       ret |-> child_slot]

duplicateslot(k, parent_slot) ==
  IF ~InTable(k.swap_area, parent_slot)
     \/ k.swap_area[parent_slot].is_free = 1 THEN [k |-> k, ret |-> -1]
  ELSE Let1(FindSlotRetry(k), LAMBDA r :
         IF r.ret < 0 THEN [k |-> r.k, ret |-> -1]
         ELSE DuplicateBody(r.k, parent_slot, r.ret))

\* one iteration of the loop of swapFree at address i
SwapFreeStep(k, p, i) ==
  LET pte == walkpgdir(k.pgdir[p], i)
      slot_index == PTE_ADDR(pte) \div PGSIZE
  IN  IF pte = NoPTE THEN k
      ELSE IF ~HasBit(pte, PTE_P) /\ pte # 0
              /\ InTable(k.swap_area, slot_index)
        THEN freeslot(k, slot_index)
        ELSE k

RECURSIVE SwapFreeLoop(_, _, _)
SwapFreeLoop(k, p, i) ==
  IF i >= KERNBASE THEN k
  ELSE Let1(SwapFreeStep(k, p, i), LAMBDA k1 : SwapFreeLoop(k1, p, i + PGSIZE))

swapFree(k, p) == SwapFreeLoop(k, p, 0)

(***************************************************************************)
(* The kernel as a state machine: each action is one whole call.           *)
(***************************************************************************)
K ==
  [swap_area |-> swap_area, disk |-> disk, pgdir |-> pgdir, physmem |-> physmem,
   freelist |-> freelist, ptable |-> ptable, threshold |-> threshold,
   npages_to_swap |-> npages_to_swap, snap |-> snap, nswapout |-> 0, nevicted |-> 0,
   nattempts |-> 0]

Commit(k, op, ret) ==
  /\ swap_area' = k.swap_area
  /\ disk' = k.disk
  /\ pgdir' = k.pgdir
  /\ physmem' = k.physmem
  /\ freelist' = k.freelist
  /\ ptable' = k.ptable
  /\ threshold' = k.threshold
  /\ npages_to_swap' = k.npages_to_swap
  /\ snap' = k.snap
  /\ last' = [op |-> op, ret |-> ret, va |-> -1, nswapout |-> k.nswapout,
               nevicted |-> k.nevicted, swept |-> FALSE, before |-> threshold,
               nattempts |-> k.nattempts]
  /\ UNCHANGED tvars

Alive(p) == ptable[p].state = "RUNNABLE"

IsSwapped(pte) == pte # NoPTE /\ pte # 0 /\ ~HasBit(pte, PTE_P)

IsPresent(pte) == pte # NoPTE /\ HasBit(pte, PTE_P)

\* an allocation-pressure point calls checkAswap()
CheckAswap == Commit(checkAswap(K), "checkAswap", 0)

\* page fault of process p on a non-zero entry: trap calls swappage_in(p->pgdir, va)
SwapPageIn(p, n, off) ==
  /\ Alive(p)
  /\ pgdir[p][n] # 0
  /\ LET r == swappage_in(K, p, n * PGSIZE + off)
     IN  Commit(r.k, "swappage_in", r.ret)

\* swapout's call of swappageout for a page that another CPU made non-resident
\* after findpage chose it: the call fails and swapout only counts the attempt
SwapPageOutRaced(p, n) ==
  /\ Alive(p)
  /\ IsSwapped(pgdir[p][n])
  /\ LET r == swappageout(K, p, n * PGSIZE, 0)
     IN  Commit(r.k, "swappageout", r.ret)

\* fork copying one swapped page of the parent into the child's empty entry
ForkCopy(parent, child, n) ==
  /\ Alive(parent) /\ Alive(child) /\ parent # child
  /\ IsSwapped(pgdir[parent][n])
  /\ pgdir[child][n] = 0
  /\ LET pte == pgdir[parent][n]
         r == duplicateslot(K, PTE_ADDR(pte) \div PGSIZE)
         k1 == IF r.ret < 0 THEN r.k
               ELSE [r.k EXCEPT !.pgdir[child][n] = r.ret * PGSIZE + PTE_FLAGS(pte)]
     IN  Commit(k1, "duplicateslot", r.ret)

\* exit of process p: swapFree(p), then the process is a zombie
Exit(p) ==
  /\ Alive(p)
  /\ LET k1 == swapFree(K, p)
     IN  Commit([k1 EXCEPT !.ptable[p].state = "ZOMBIE"], "swapFree", 0)

(***************************************************************************)
(* Initial states: swapInit() has run and nothing is swapped.  As after    *)
(* boot, two processes (init and sh, pids 1 and 2) are running, each with  *)
(* entries for its first two pages; the other table entries are UNUSED.    *)
(***************************************************************************)
InitProcs == {0, 1}

InitPages == {0, 1}

InitKinds == << PTE_P + PTE_W + PTE_U,
                PTE_P + PTE_W + PTE_U + PTE_A,
                0,
                PTE_P + PTE_W + PTE_U + PTE_A + PTE_D,
                PTE_P + PTE_U,
                NoPTE,
                PTE_P + PTE_W >>

\* the layouts Init draws from: which kind each of the four entries starts as
InitLayouts == {0, 3, 6}

FrameOf(p, n) == p * Cardinality(InitPages) + n + 1

InitPTE(c, p, n) ==
  LET kind == InitKinds[((c + p * Cardinality(InitPages) + n) % Len(InitKinds)) + 1]
  IN  IF kind = NoPTE \/ kind = 0 THEN kind ELSE V2P(FrameOf(p, n)) + kind

InitPgdir(c) ==
  [p \in Procs |-> [n \in PageNos |->
     IF n \notin UserPageNos THEN PTE_P + PTE_W
     ELSE IF p \in InitProcs /\ n \in InitPages THEN InitPTE(c, p, n)
     ELSE 0]]

Mapped(pg) ==
  { P2V(PTE_ADDR(pg[x[1]][x[2]])) :
      x \in { y \in Procs \X UserPageNos : IsPresent(pg[y[1]][y[2]]) } }

RECURSIVE Ascending(_, _)
Ascending(S, f) ==
  IF f > NFRAMES THEN << >>
  ELSE IF f \in S THEN << f >> \o Ascending(S, f + 1)
  ELSE Ascending(S, f + 1)

\* the locals of a thread that is in no call; ev is history: the events of the
\* call in the order they happened
Loc0 ==
  [p |-> 0, va |-> 0, pa |-> 0, slot |-> -1, i |-> 0, victim |-> -1,
   swapped |-> 0, attempts |-> 0, mem |-> 0, perm |-> 0, pte |-> 0,
   parent |-> -1, ret |-> 0, ev |-> << >>]

InitTvars ==
  /\ lock = 0
  /\ pc = [t \in Threads |-> "idle"]
  /\ idx = [t \in Threads |-> 0]
  /\ holder = [s \in Slots |-> 0]
  /\ loc = [t \in Threads |-> Loc0]

\* everything but the free list and the controller
InitMemory ==
  /\ swap_area = [s \in Slots |-> [page_perm |-> 0, is_free |-> 1]]
  /\ disk = [b \in BlockNos |-> 0]
  /\ physmem = [f \in Frames |->
       IF f \in Mapped(pgdir) THEN [i \in Blk |-> (f + i) % 3] ELSE JunkPage]
  /\ ptable = [p \in Procs |->
       IF p \in InitProcs
         THEN [state |-> "RUNNABLE", pid |-> p + 1,
               rss |-> Cardinality({ n \in UserPageNos : Candidate(pgdir[p][n]) })]
         ELSE [state |-> "UNUSED", pid |-> 0, rss |-> 0]]
  /\ snap = [p \in Procs |-> [n \in UserPageNos |-> NoSnap]]
  /\ last = [op |-> "boot", ret |-> 0, va |-> -1, nswapout |-> 0,
             nevicted |-> 0, swept |-> FALSE, before |-> 0, nattempts |-> 0]
  /\ InitTvars

RECURSIVE FixThreshold(_)
FixThreshold(t) == IF NextThreshold(t) = t THEN t ELSE FixThreshold(NextThreshold(t))

RECURSIVE FixNpages(_)
FixNpages(n) == IF NextNpages(n) = n THEN n ELSE FixNpages(NextNpages(n))

\* A kernel that has been under pressure long enough for the controller to
\* stop moving, and with memory exhausted: no frame is free.
Init ==
  /\ \E c \in InitLayouts : pgdir = InitPgdir(c)
  /\ freelist = << >>
  /\ threshold = FixThreshold(ThresholdInit)
  /\ npages_to_swap = FixNpages(NpagesInit)
  /\ InitMemory

Next ==
  \/ CheckAswap
  \/ \E p \in Procs, n \in UserPageNos, off \in {0, 100} : SwapPageIn(p, n, off)
  \/ \E p \in Procs, n \in UserPageNos : SwapPageOutRaced(p, n)
  \/ \E p \in Procs, q \in Procs, n \in UserPageNos : ForkCopy(p, q, n)
  \/ \E p \in Procs : Exit(p)

Spec == Init /\ [][Next]_vars

(***************************************************************************)
(* The controller from its boot values.  The frames that are not mapped    *)
(* are on the free list, all of them or those that the rest of the kernel  *)
(* (page tables, stacks, buffers) has left.                                *)
(***************************************************************************)
InitCtl ==
  /\ \E c \in InitLayouts : pgdir = InitPgdir(c)
  /\ \E taken \in {0, NFRAMES \div 2} :
       freelist = Ascending({ f \in Frames \ Mapped(pgdir) : f > taken }, 1)
  /\ threshold = ThresholdInit
  /\ npages_to_swap = NpagesInit
  /\ InitMemory

NextCtl ==
  \/ CheckAswap
  \/ \E p \in Procs, n \in UserPageNos : SwapPageIn(p, n, 0)
  \/ \E p \in Procs : Exit(p)

SpecCtl == InitCtl /\ [][NextCtl]_vars

(***************************************************************************)
(* The selection functions on their own: Init draws a process table or a   *)
(* page table, and each action is one call.                                *)
(***************************************************************************)
ProcEntries ==
  { [state |-> "UNUSED", pid |-> 0, rss |-> 0],
    [state |-> "UNUSED", pid |-> 0, rss |-> 2],
    [state |-> "RUNNABLE", pid |-> 0, rss |-> 2] }
  \cup [state : {"RUNNABLE"}, pid : 1 .. 3, rss : 0 .. 2]

\* what a leaf of the page table of page n may hold
LeafKinds(n) ==
  { NoPTE, 0,
    V2P(n + 1) + PTE_P + PTE_U,
    V2P(n + 1) + PTE_P + PTE_U + PTE_A,
    V2P(n + 1) + PTE_P + PTE_W + PTE_U + PTE_A + PTE_D,
    V2P(n + 1) + PTE_P + PTE_W,
    V2P(n + 1) + PTE_P + PTE_W + PTE_A,
    PGSIZE + PTE_U + PTE_A }

\* the user parts of the page tables: entry n + 1 is the leaf of page n
RECURSIVE LeafTables(_)
LeafTables(n) ==
  IF n = 0 THEN { << >> }
  ELSE { Append(t, x) : t \in LeafTables(n - 1), x \in LeafKinds(n - 1) }

SlotEntries ==
  { [page_perm |-> 0, is_free |-> 1],
    [page_perm |-> 0, is_free |-> 0],
    [page_perm |-> PTE_P + PTE_W + PTE_U, is_free |-> 0] }

InitSelRest ==
  /\ disk = [b \in BlockNos |-> 0]
  /\ physmem = [f \in Frames |-> JunkPage]
  /\ freelist = << >>
  /\ threshold = ThresholdInit
  /\ npages_to_swap = NpagesInit
  /\ snap = [p \in Procs |-> [n \in UserPageNos |-> NoSnap]]
  /\ last = [op |-> "boot", ret |-> 0, va |-> -1, nswapout |-> 0,
             nevicted |-> 0, swept |-> FALSE, before |-> 0, nattempts |-> 0]
  /\ InitTvars

InitProc ==
  /\ ptable \in [Procs -> ProcEntries]
  /\ pgdir = InitPgdir(0)
  /\ swap_area = [s \in Slots |-> [page_perm |-> 0, is_free |-> 1]]
  /\ InitSelRest

InitPage ==
  /\ ptable = [p \in Procs |-> [state |-> "RUNNABLE", pid |-> p + 1, rss |-> 0]]
  /\ \E pgd \in LeafTables(NPAGES) :
       pgdir = [p \in Procs |-> [n \in PageNos |->
            IF n \in UserPageNos THEN pgd[n + 1] ELSE PTE_P + PTE_W + PTE_A]]
  /\ swap_area = [s \in Slots |-> [page_perm |-> 0, is_free |-> 1]]
  /\ InitSelRest

FindProcCall ==
  /\ last' = [op |-> "findproc", ret |-> findproc(ptable), va |-> -1, nswapout |-> 0,
               nevicted |-> 0, swept |-> FALSE, before |-> 0, nattempts |-> 0]
  /\ UNCHANGED << swap_area, disk, pgdir, physmem, freelist, ptable, threshold,
                  npages_to_swap, snap, tvars >>

FindPageCall(p) ==
  /\ LET r == findpage(pgdir[p])
     IN  /\ pgdir' = [pgdir EXCEPT ![p] = r.pgd]
         /\ last' = [op |-> "findpage", ret |-> r.pa, va |-> r.va, nswapout |-> 0,
                      nevicted |-> 0, swept |-> r.pgd # pgdir[p],
                      before |-> 0, nattempts |-> 0]
  /\ UNCHANGED << swap_area, disk, physmem, freelist, ptable, threshold,
                  npages_to_swap, snap, tvars >>

NextProc == FindProcCall

SpecProc == InitProc /\ [][NextProc]_vars

NextPage == FindPageCall(0)

SpecPage == InitPage /\ [][NextPage]_vars

(***************************************************************************)
(* findslot and freeslot called concurrently by several CPUs, one step per *)
(* lock operation, loop test or store.  holder is history: the thread the  *)
(* slot was last returned to (-1: a caller before Init), 0 once released.  *)
(***************************************************************************)
InitSlots ==
  /\ swap_area \in [Slots -> SlotEntries]
  /\ ptable = [p \in Procs |-> [state |-> "RUNNABLE", pid |-> p + 1, rss |-> 0]]
  /\ pgdir = InitPgdir(0)
  /\ disk = [b \in BlockNos |-> 0]
  /\ physmem = [f \in Frames |-> JunkPage]
  /\ freelist = << >>
  /\ threshold = ThresholdInit
  /\ npages_to_swap = NpagesInit
  /\ snap = [p \in Procs |-> [n \in UserPageNos |-> NoSnap]]
  /\ last = [op |-> "boot", ret |-> 0, va |-> -1, nswapout |-> 0,
             nevicted |-> 0, swept |-> FALSE, before |-> 0, nattempts |-> 0]
  /\ lock = 0
  /\ pc = [t \in Threads |-> "idle"]
  /\ idx = [t \in Threads |-> 0]
  /\ holder = [s \in Slots |-> IF swap_area[s].is_free = 1 THEN 0 ELSE -1]
  /\ loc = [t \in Threads |-> Loc0]

\* acquire(&swap_area.lock): spins until the lock is free, then takes it
acquire(t) ==
  /\ lock = 0
  /\ lock' = t

release(t) == lock' = 0

FsCall(t) ==
  /\ pc[t] = "idle"
  /\ pc' = [pc EXCEPT ![t] = "fs_acquire"]
  /\ UNCHANGED << kvars, lock, idx, holder, loc >>

\* findslot entering its loop without waiting for the lock
FsAcquireNoWait(t) ==
  /\ pc[t] = "fs_acquire"
  /\ lock' = t
  /\ idx' = [idx EXCEPT ![t] = 0]
  /\ pc' = [pc EXCEPT ![t] = "fs_loop"]
  /\ UNCHANGED << kvars, holder, loc >>

FsAcquire(t) ==
  /\ pc[t] = "fs_acquire"
  /\ acquire(t)
  /\ idx' = [idx EXCEPT ![t] = 0]
  /\ pc' = [pc EXCEPT ![t] = "fs_loop"]
  /\ UNCHANGED << kvars, holder, loc >>

\* the loop examining the slots from the last one down
FsLoopFromTop(t) ==
  /\ pc[t] = "fs_loop"
  /\ IF idx[t] >= NSLOTS
       THEN /\ pc' = [pc EXCEPT ![t] = "fs_fail"]
            /\ idx' = idx
       ELSE IF swap_area[NSLOTS - 1 - idx[t]].is_free = 1
         THEN /\ pc' = [pc EXCEPT ![t] = "fs_mark"]
              /\ idx' = [idx EXCEPT ![t] = NSLOTS - 1 - @]
         ELSE /\ pc' = pc
              /\ idx' = [idx EXCEPT ![t] = @ + 1]
  /\ UNCHANGED << kvars, lock, holder, loc >>

\* the loop test i < 800 and the test of slots[i].is_free
FsLoop(t) ==
  /\ pc[t] = "fs_loop"
  /\ IF idx[t] >= NSLOTS
       THEN /\ pc' = [pc EXCEPT ![t] = "fs_fail"]
            /\ idx' = idx
       ELSE IF swap_area[idx[t]].is_free = 1
         THEN /\ pc' = [pc EXCEPT ![t] = "fs_mark"]
              /\ idx' = idx
         ELSE /\ pc' = pc
              /\ idx' = [idx EXCEPT ![t] = @ + 1]
  /\ UNCHANGED << kvars, lock, holder, loc >>

FsMark(t) ==
  /\ pc[t] = "fs_mark"
  /\ swap_area' = [swap_area EXCEPT ![idx[t]].is_free = 0]
  /\ pc' = [pc EXCEPT ![t] = "fs_found"]
  /\ UNCHANGED << disk, pgdir, physmem, freelist, ptable, threshold,
                  npages_to_swap, snap, last, lock, idx, holder, loc >>

\* release the lock and return i
FsFound(t) ==
  /\ pc[t] = "fs_found"
  /\ release(t)
  /\ holder' = [holder EXCEPT ![idx[t]] = t]
  /\ idx' = [idx EXCEPT ![t] = 0]
  /\ pc' = [pc EXCEPT ![t] = "idle"]
  /\ UNCHANGED << kvars, loc >>

\* release the lock and return -1
FsFail(t) ==
  /\ pc[t] = "fs_fail"
  /\ release(t)
  /\ idx' = [idx EXCEPT ![t] = 0]
  /\ pc' = [pc EXCEPT ![t] = "idle"]
  /\ UNCHANGED << kvars, holder, loc >>

\* freeslot(slot_index): returns at once when the index is out of range
FrCall(t, slot_index) ==
  /\ pc[t] = "idle"
  /\ IF slot_index < 0 \/ slot_index >= NSLOTS
       THEN UNCHANGED << pc, idx >>
       ELSE /\ idx' = [idx EXCEPT ![t] = slot_index]
            /\ pc' = [pc EXCEPT ![t] = "fr_acquire"]
  /\ UNCHANGED << kvars, lock, holder, loc >>

FrAcquire(t) ==
  /\ pc[t] = "fr_acquire"
  /\ acquire(t)
  /\ pc' = [pc EXCEPT ![t] = "fr_store"]
  /\ UNCHANGED << kvars, idx, holder, loc >>

FrStore(t) ==
  /\ pc[t] = "fr_store"
  /\ swap_area' = [swap_area EXCEPT ![idx[t]] = [page_perm |-> 0, is_free |-> 1]]
  /\ holder' = [holder EXCEPT ![idx[t]] = 0]
  /\ pc' = [pc EXCEPT ![t] = "fr_release"]
  /\ UNCHANGED << disk, pgdir, physmem, freelist, ptable, threshold,
                  npages_to_swap, snap, last, lock, idx, loc >>

FrRelease(t) ==
  /\ pc[t] = "fr_release"
  /\ release(t)
  /\ idx' = [idx EXCEPT ![t] = 0]
  /\ pc' = [pc EXCEPT ![t] = "idle"]
  /\ UNCHANGED << kvars, holder, loc >>

NextSlots ==
  \E t \in Threads :
    \/ FsCall(t)
    \/ FsAcquire(t)
    \/ FsLoop(t)
    \/ FsMark(t)
    \/ FsFound(t)
    \/ FsFail(t)
    \/ \E i \in -1 .. NSLOTS : FrCall(t, i)
    \/ FrAcquire(t)
    \/ FrStore(t)
    \/ FrRelease(t)

SpecSlots == InitSlots /\ [][NextSlots]_vars

(***************************************************************************)
(* Properties of the whole kernel (Spec).                                  *)
(***************************************************************************)
UsedSlots == { s \in Slots : swap_area[s].is_free = 0 }

SwappedPTEs == { x \in Procs \X UserPageNos : IsSwapped(pgdir[x[1]][x[2]]) }

\* C1: in every state reached by completed operations, failing ones included,
\* the number of slots with is_free = 0 equals the number of swapped entries
\* (nonzero, P clear) over all address spaces.
C1_SlotConservation == Cardinality(UsedSlots) = Cardinality(SwappedPTEs)

\* the pages of p that change from the first kind of entry to the second
Moved(p, From(_), To(_)) ==
  { n \in UserPageNos : From(pgdir[p][n]) /\ To(pgdir'[p][n]) }

\* the content of the page that layout frame f held at boot
BootPage(f) == [i \in Blk |-> (f + i) % 3]

\* C2: when a page that swapout evicted is brought back by swappage_in, its
\* entry is present with the low 12 bits it had at eviction, its frame holds
\* the content it had at eviction, the slot it occupied is free, and the rss
\* of every process moves by one down per page evicted and one up per page
\* brought back, so that a round trip leaves it where it was.
C2_RoundTrip ==
  [][\A p \in Procs :
       /\ \A n \in Moved(p, IsSwapped, IsPresent) :
            snap[p][n] # NoSnap =>
              /\ PTE_FLAGS(pgdir'[p][n]) = snap[p][n].flags
              /\ HasBit(snap[p][n].flags, PTE_P)
              /\ physmem'[P2V(PTE_ADDR(pgdir'[p][n]))] = snap[p][n].data
              /\ swap_area'[PTE_ADDR(pgdir[p][n]) \div PGSIZE].is_free = 1
       /\ ptable'[p].rss - ptable[p].rss =
            Cardinality(Moved(p, IsSwapped, IsPresent))
              - Cardinality(Moved(p, IsPresent, IsSwapped))]_vars

\* a page is back, in another frame than at boot, with its boot content and
\* flags, and its process has the rss it booted with
C2_Witness ==
  /\ last.op = "swappage_in" /\ last.ret = 0
  /\ \E p \in InitProcs, n \in InitPages :
       /\ IsPresent(pgdir[p][n])
       /\ HasBit(pgdir[p][n], PTE_U)
       /\ P2V(PTE_ADDR(pgdir[p][n])) # FrameOf(p, n)
       /\ physmem[P2V(PTE_ADDR(pgdir[p][n]))] = BootPage(FrameOf(p, n))
       /\ ptable[p].rss =
            Cardinality({ m \in UserPageNos : Candidate(pgdir[p][m]) })
       /\ UsedSlots = {}

(***************************************************************************)
(* Properties of the replacement controller (SpecCtl).                     *)
(***************************************************************************)
\* a step in which exactly one call of checkAswap found free <= threshold
Triggered == last'.nswapout = 1

\* C4 as stated: every triggering call of checkAswap strictly decreases
\* threshold while it is above 1 and strictly increases npages_to_swap while
\* it is below limit.
C4_StrictToOne ==
  [][Triggered =>
       /\ threshold > 1 => threshold' < threshold
       /\ npages_to_swap < limit => npages_to_swap' > npages_to_swap]_vars

\* C4: every triggering call of checkAswap strictly decreases threshold while
\* it is at least 10 and leaves it as it is below 10, where a tenth of it
\* rounds down to 0; it strictly increases npages_to_swap while that is below
\* limit; threshold therefore never goes below 9.
C4_Monotone ==
  [][/\ Triggered =>
          /\ threshold >= 10 => threshold' < threshold
          /\ threshold < 10 => threshold' = threshold
          /\ npages_to_swap < limit => npages_to_swap' > npages_to_swap
          /\ npages_to_swap' <= limit
     /\ threshold' >= 9]_vars

\* a triggering call that started from threshold 9 has left it at 9, with
\* the batch at limit
C4_Witness ==
  /\ last.op = "checkAswap" /\ last.nswapout = 1
  /\ last.before = 9 /\ threshold = 9
  /\ npages_to_swap = limit

\* C5: a call of checkAswap with more free frames than threshold changes
\* neither threshold, npages_to_swap, the slot table, any page table entry,
\* any rss nor the free list, and does not call swapout; a call with free
\* frames equal to or below threshold does call swapout.
C5_TriggerExact ==
  [][last'.op = "checkAswap" =>
       IF Len(freelist) > threshold
         THEN /\ last'.nswapout = 0
              /\ UNCHANGED << threshold, npages_to_swap, swap_area, pgdir,
                              ptable, freelist, disk, physmem >>
         ELSE last'.nswapout = 1]_vars

\* checkAswap has just returned without a trigger, free frames above threshold
C5_Witness ==
  /\ last.op = "checkAswap" /\ last.nswapout = 0
  /\ Len(freelist) > threshold

\* C6: a step calls swapout once for each triggering checkAswap in it, and a
\* triggering call replaces threshold by max(1, threshold - threshold*beta/100)
\* and npages_to_swap by min(limit, npages_to_swap + npages_to_swap*alpha/100),
\* from the values before the call and whatever swapout evicted; the boot
\* values 100 and 4 become 90 and 5.
C6_Adaptation ==
  [][/\ last'.op = "checkAswap" /\ Len(freelist) <= threshold => Triggered
     /\ Triggered =>
          /\ threshold' =
               IF threshold - (threshold * beta) \div 100 < 1 THEN 1
               ELSE threshold - (threshold * beta) \div 100
          /\ npages_to_swap' =
               IF npages_to_swap + (npages_to_swap * alpha) \div 100 > limit
                 THEN limit
               ELSE npages_to_swap + (npages_to_swap * alpha) \div 100
          /\ threshold = 100 /\ npages_to_swap = 4 =>
               threshold' = 90 /\ npages_to_swap' = 5
     /\ last'.nswapout = 0 => UNCHANGED << threshold, npages_to_swap >>]_vars

\* a triggering call has evicted nothing and the controller has moved on
C6_Witness ==
  /\ last.op = "checkAswap" /\ last.nswapout = 1
  /\ last.nevicted = 0
  /\ threshold < ThresholdInit /\ npages_to_swap > NpagesInit

(***************************************************************************)
(* Properties of the selection functions (SpecProc, SpecPage).             *)
(***************************************************************************)
Eligible(pt) == { i \in DOMAIN pt : pt[i].state # "UNUSED" /\ pt[i].pid >= 1 }

\* the pids findproc may answer with: the smallest among the eligible entries
\* of largest rss, or none (0) when no eligible entry has a positive rss
VictimPids(pt) ==
  LET top == { i \in Eligible(pt) : \A j \in Eligible(pt) : pt[j].rss <= pt[i].rss }
  IN  IF \A i \in Eligible(pt) : pt[i].rss <= 0 THEN {0}
      ELSE { pt[i].pid : i \in { h \in top : \A j \in top : pt[h].pid <= pt[j].pid } }

PidOf(pt, i) == IF i = -1 THEN 0 ELSE pt[i].pid

Swapped(pt, i, j) == [pt EXCEPT ![i] = pt[j], ![j] = pt[i]]

\* C7: findproc answers with an eligible entry (state not UNUSED, pid >= 1) of
\* the largest rss and, among those, of the smallest pid; with none exactly
\* when no eligible entry has rss > 0; and exchanging any two entries of the
\* table does not change the pid it answers with.
C7_VictimProcess ==
  last.op = "findproc" =>
    /\ last.ret # -1 => last.ret \in Eligible(ptable) /\ ptable[last.ret].rss > 0
    /\ PidOf(ptable, last.ret) \in VictimPids(ptable)
    /\ last.ret = -1 <=> \A i \in Eligible(ptable) : ptable[i].rss <= 0
    /\ \A i \in Procs, j \in Procs :
         PidOf(Swapped(ptable, i, j), findproc(Swapped(ptable, i, j)))
           = PidOf(ptable, last.ret)

\* findproc has answered with the later of two entries tied at the largest rss
C7_Witness ==
  /\ last.op = "findproc"
  /\ last.ret # -1
  /\ \E i \in Eligible(ptable) :
       /\ i < last.ret
       /\ ptable[i].rss = ptable[last.ret].rss
       /\ ptable[i].pid > ptable[last.ret].pid

UserCandidates(pgd) ==
  { n \in DOMAIN pgd : n * PGSIZE < KERNBASE /\ pgd[n] # NoPTE
                       /\ HasBit(pgd[n], PTE_P) /\ HasBit(pgd[n], PTE_U) }

Lowest(S) == CHOOSE n \in S : \A m \in S : n <= m

\* C8: findpage answers with the lowest page below KERNBASE whose entry has P
\* and U set and A clear; if there is none, with the lowest whose entry has P
\* and U set; with none exactly when no entry has both P and U.  The answer
\* is thereby fixed by the page table and its accessed bits.
C8_VictimPage ==
  [][last'.op = "findpage" =>
       LET C == UserCandidates(pgdir[0])
           U == { n \in C : ~HasBit(pgdir[0][n], PTE_A) }
           n == IF U # {} THEN Lowest(U) ELSE Lowest(C)
       IN  /\ last'.ret = 0 <=> C = {}
           /\ C # {} => /\ last'.va = n * PGSIZE
                        /\ last'.ret = PTE_ADDR(pgdir[0][n])]_vars

\* findpage has passed over an accessed page and answered with a later one
C8_Witness ==
  /\ last.op = "findpage" /\ ~last.swept
  /\ last.va > 0
  /\ 0 \in UserCandidates(pgdir[0])
  /\ HasBit(pgdir[0][0], PTE_A)

\* C9: when every entry with P and U has A set, findpage clears A in each of
\* them and changes no other bit of any entry; when some entry with P and U
\* has A clear, findpage changes no entry.
C9_SecondChance ==
  [][last'.op = "findpage" =>
       LET C == UserCandidates(pgdir[0])
       IN  /\ \A p \in Procs \ {0} : pgdir'[p] = pgdir[p]
           /\ IF \A n \in C : HasBit(pgdir[0][n], PTE_A)
                THEN \A n \in PageNos :
                       pgdir'[0][n] = IF n \in C THEN pgdir[0][n] - PTE_A
                                      ELSE pgdir[0][n]
                ELSE pgdir'[0] = pgdir[0]]_vars

\* findpage has cleared the accessed bits of at least two pages and left an
\* entry without U, with its accessed bit, as it was
C9_Witness ==
  /\ last.op = "findpage" /\ last.swept
  /\ Cardinality(UserCandidates(pgdir[0])) >= 2
  /\ \A n \in UserCandidates(pgdir[0]) : ~HasBit(pgdir[0][n], PTE_A)
  /\ \E n \in UserPageNos : pgdir[0][n] # NoPTE /\ ~HasBit(pgdir[0][n], PTE_U)
                            /\ HasBit(pgdir[0][n], PTE_A)

(***************************************************************************)
(* Properties of the slot table under concurrent calls (SpecSlots).        *)
(***************************************************************************)
\* C3: a findslot call that is about to return index i returns a slot that no
\* earlier findslot call still holds: since i was last returned, a freeslot
\* has released it; and no other call is about to return i as well.
C3_NoDoubleAllocation ==
  \A t \in Threads :
    pc[t] = "fs_found" =>
      /\ holder[idx[t]] = 0
      /\ \A u \in Threads \ {t} : pc[u] = "fs_found" => idx[u] # idx[t]

\* a findslot call is about to return a slot while a second findslot call,
\* by a thread that holds another slot already, waits for the lock
C3_Witness ==
  \E t \in Threads : \E u \in Threads \ {t} :
    /\ pc[t] = "fs_found"
    /\ pc[u] = "fs_acquire"
    /\ \E s \in Slots \ {idx[t]} : holder[s] = u

InFindslot(t) == pc[t] \in {"fs_acquire", "fs_loop", "fs_mark", "fs_found", "fs_fail"}

\* C10: findslot marks the lowest slot with is_free = 1, changes the is_free
\* of that slot alone and no page_perm, and returns its index; it returns -1,
\* having changed nothing, exactly when every slot is used.  From the moment
\* it holds the lock until it returns, no other call changes the table.
C10_FirstFit ==
  [][\A t \in Threads :
       /\ pc[t] = "fs_mark" =>
            /\ swap_area[idx[t]].is_free = 1
            /\ \A j \in Slots : j < idx[t] => swap_area[j].is_free = 0
       /\ pc[t] = "fs_mark" /\ pc'[t] # pc[t] =>
            /\ pc'[t] = "fs_found" /\ idx'[t] = idx[t]
            /\ swap_area' = [swap_area EXCEPT ![idx[t]].is_free = 0]
       /\ pc[t] = "fs_found" /\ pc'[t] # pc[t] =>
            /\ holder'[idx[t]] = t
            /\ swap_area[idx[t]].is_free = 0
       /\ pc[t] = "fs_fail" => \A j \in Slots : swap_area[j].is_free = 0
       /\ pc[t] = "fs_loop" /\ (\A j \in Slots : swap_area[j].is_free = 0)
            => pc'[t] \in {"fs_loop", "fs_fail"}
       /\ InFindslot(t) /\ pc[t] # "fs_mark" /\ pc'[t] # pc[t] =>
            swap_area' = swap_area
       /\ lock = t /\ pc'[t] = pc[t] /\ idx'[t] = idx[t] =>
            swap_area' = swap_area]_vars

\* findslot is about to return slot 1, having passed over the used slot 0
\* and left the page_perm of both as they were
C10_Witness ==
  \E t \in Threads :
    /\ pc[t] = "fs_found"
    /\ idx[t] = 1
    /\ swap_area[0].is_free = 0
    /\ swap_area[0].page_perm # 0

(***************************************************************************)
(* Properties of exit cleanup and of the failure paths (Spec).             *)
(***************************************************************************)
SlotOf(pte) == PTE_ADDR(pte) \div PGSIZE

\* the process whose exit this step is
Exiting(p) ==
  /\ last'.op = "swapFree"
  /\ ptable[p].state = "RUNNABLE"
  /\ ptable'[p].state = "ZOMBIE"

\* C12: after swapFree(p) every slot that a nonzero, non-present entry of p
\* names is free with page_perm 0, no present entry of p has changed, and no
\* slot named by a swapped entry of another process has changed.
C12_ExitCleanup ==
  [][\A p \in Procs :
       Exiting(p) =>
         /\ \A n \in UserPageNos :
              IsSwapped(pgdir[p][n]) /\ SlotOf(pgdir[p][n]) \in Slots =>
                swap_area'[SlotOf(pgdir[p][n])] = [page_perm |-> 0, is_free |-> 1]
         /\ \A n \in PageNos :
              IsPresent(pgdir[p][n]) => pgdir'[p][n] = pgdir[p][n]
         /\ \A q \in Procs \ {p} : \A n \in UserPageNos :
              IsSwapped(pgdir[q][n]) /\ SlotOf(pgdir[q][n]) \in Slots =>
                swap_area'[SlotOf(pgdir[q][n])] = swap_area[SlotOf(pgdir[q][n])]]_vars

\* C13: a call of swappageout that fails leaves the slot table, the page
\* tables and the disk as they were.
C13_FailureReleasesSlot ==
  [][last'.op = "swappageout" /\ last'.ret = -1 =>
       /\ swap_area' = swap_area
       /\ pgdir' = pgdir
       /\ disk' = disk]_vars

(***************************************************************************)
(* swappage_in as a function of the entry it is called on: Init draws the  *)
(* page table of process 0 (pid 1), the slot table and the free list.      *)
(***************************************************************************)
\* what the leaf of page n may hold when the fault handler is first entered:
\* page 0 is the page the claim is about, the others are there to be evicted
FaultKinds(n) ==
  IF n = 0
    THEN { NoPTE,
           V2P(n + 1) + PTE_P + PTE_W + PTE_U,
           0 * PGSIZE + PTE_W + PTE_U,
           1 * PGSIZE + PTE_W + PTE_U,
           NSLOTS * PGSIZE + PTE_W + PTE_U }
    ELSE { NoPTE, V2P(n + 1) + PTE_P + PTE_W + PTE_U }

\* a slot is free, or used by a process outside the model
FaultSlots ==
  { [page_perm |-> 0, is_free |-> 1], [page_perm |-> PTE_W + PTE_U, is_free |-> 0] }

InitFault ==
  /\ \E pgd \in [UserPageNos -> UNION { FaultKinds(n) : n \in UserPageNos }] :
       /\ \A n \in UserPageNos : pgd[n] \in FaultKinds(n)
       /\ pgdir = [p \in Procs |-> [n \in PageNos |->
            IF n \notin UserPageNos THEN PTE_P + PTE_W
            ELSE IF p = 0 THEN pgd[n] ELSE 0]]
  /\ swap_area \in [Slots -> FaultSlots]
  /\ \E fl \in { << >>, << NFRAMES >> } : freelist = fl
  /\ threshold = ThresholdInit
  /\ npages_to_swap = NpagesInit
  /\ disk = [b \in BlockNos |-> b % 3]
  /\ physmem = [f \in Frames |->
       IF f \in Mapped(pgdir) THEN BootPage(f) ELSE JunkPage]
  /\ ptable = [p \in Procs |->
       IF p = 0
         THEN [state |-> "RUNNABLE", pid |-> 1,
               rss |-> Cardinality({ n \in UserPageNos : Candidate(pgdir[p][n]) })]
         ELSE [state |-> "UNUSED", pid |-> 0, rss |-> 0]]
  /\ snap = [p \in Procs |-> [n \in UserPageNos |-> NoSnap]]
  /\ last = [op |-> "boot", ret |-> 0, va |-> -1, nswapout |-> 0,
             nevicted |-> 0, swept |-> FALSE, before |-> 0, nattempts |-> 0]
  /\ InitTvars

NextFault == \E n \in UserPageNos, off \in {0, 100} : SwapPageIn(0, n, off)

SpecFault == InitFault /\ [][NextFault]_vars

Evicted(p, n) ==
  /\ IsPresent(pgdir[p][n])
  /\ snap[p][n] = NoSnap
  /\ snap'[p][n] # NoSnap

\* the entry of an evicted page: slot index above the low 12 bits, the old
\* flags without P below; the slot was free, is now used and holds the flags
EncodedAt(p, n) ==
  LET f == snap'[p][n].flags
      pte == pgdir'[p][n]
  IN  /\ pte # 0 /\ pte # NoPTE /\ ~HasBit(pte, PTE_P)
      /\ SlotOf(pte) \in Slots
      /\ pte = SlotOf(pte) * PGSIZE + ClearBit(f, PTE_P)
      /\ swap_area[SlotOf(pte)].is_free = 1
      /\ swap_area'[SlotOf(pte)] = [page_perm |-> f, is_free |-> 0]

\* C15: after a successful swappageout on a present entry with flags f the
\* entry is (slot_index << 12) | (f & ~P), nonzero with P clear, naming the
\* slot this call reserved, which is used and has page_perm = f; and so every
\* swapped entry of every page table names an in-range used slot.
C15_SwappedEncoding ==
  [][/\ \A p \in Procs : \A n \in UserPageNos : Evicted(p, n) => EncodedAt(p, n)
     /\ \A p \in Procs : \A n \in UserPageNos :
          IsSwapped(pgdir'[p][n]) =>
            /\ SlotOf(pgdir'[p][n]) \in Slots
            /\ swap_area'[SlotOf(pgdir'[p][n])].is_free = 0]_vars

\* the part of C15 about the entry swappageout writes
C15_EncodingOnly ==
  [][\A p \in Procs : \A n \in UserPageNos : Evicted(p, n) => EncodedAt(p, n)]_vars

\* the consequence of C15 for the processes that have not exited
C15_LiveOnly ==
  [][\A p \in Procs : \A n \in UserPageNos :
          ptable'[p].state = "RUNNABLE" /\ IsSwapped(pgdir'[p][n]) =>
            /\ SlotOf(pgdir'[p][n]) \in Slots
            /\ swap_area'[SlotOf(pgdir'[p][n])].is_free = 0]_vars

(***************************************************************************)
(* The batch of swapout: a slot table long enough for a whole batch, a     *)
(* process with up to NPAGES resident pages, no free frame.  Each step is  *)
(* one call of checkAswap, which triggers and runs swapout.                *)
(***************************************************************************)
NBATCHSLOTS == 4

\* the calls stop once npages_to_swap has grown to this value
MaxBatch == 6

BatchSlots == 0 .. (NBATCHSLOTS - 1)

BatchKinds(n) ==
  { 0,
    V2P(n + 1) + PTE_P + PTE_W + PTE_U,
    V2P(n + 1) + PTE_P + PTE_W + PTE_U + PTE_A }

InitBatch ==
  /\ \E pgd \in [UserPageNos -> UNION { BatchKinds(n) : n \in UserPageNos }] :
       /\ \A n \in UserPageNos : pgd[n] \in BatchKinds(n)
       /\ pgdir = [p \in Procs |-> [n \in PageNos |->
            IF n \notin UserPageNos THEN PTE_P + PTE_W
            ELSE IF p = 0 THEN pgd[n]
            ELSE IF p = 1 /\ n = 0 THEN V2P(NPAGES + 1) + PTE_P + PTE_U
            ELSE 0]]
  /\ swap_area \in [BatchSlots -> FaultSlots]
  /\ disk = [b \in SWAPBASE .. (SWAPBASE + NBLK * NBATCHSLOTS - 1) |-> 0]
  /\ freelist = << >>
  /\ threshold = ThresholdInit
  /\ npages_to_swap = NpagesInit
  /\ physmem = [f \in Frames |->
       IF f \in Mapped(pgdir) THEN BootPage(f) ELSE JunkPage]
  /\ ptable = [p \in Procs |->
       IF p \in {0, 1}
         THEN [state |-> "RUNNABLE", pid |-> p + 1,
               rss |-> Cardinality({ n \in UserPageNos : Candidate(pgdir[p][n]) })]
         ELSE [state |-> "UNUSED", pid |-> 0, rss |-> 0]]
  /\ snap = [p \in Procs |-> [n \in UserPageNos |-> NoSnap]]
  /\ last = [op |-> "boot", ret |-> 0, va |-> -1, nswapout |-> 0,
             nevicted |-> 0, swept |-> FALSE, before |-> 0, nattempts |-> 0]
  /\ InitTvars

NextBatch == npages_to_swap < MaxBatch /\ CheckAswap

SpecBatch == InitBatch /\ [][NextBatch]_vars

\* the pages of process p that swapout may evict, and the free slots
Evictable(p) == { n \in UserPageNos : Candidate(pgdir[p][n]) }

FreeSlots == { s \in DOMAIN swap_area : swap_area[s].is_free = 1 }

\* the pages of process p that left memory in this step
EvictedOf(p) == Moved(p, IsPresent, IsSwapped)

C16_WitnessAttempts ==
  /\ last.op = "checkAswap" /\ last.nswapout = 1
  /\ last.nevicted = 1 /\ last.nattempts = 2 * NpagesInit
  /\ npages_to_swap = NextNpages(NpagesInit)

\* a call of swapout that finds a victim with a page to evict and no free slot
SlotTableFull ==
  /\ last'.op = "checkAswap" /\ last'.nswapout = 1
  /\ FreeSlots = {}
  /\ findproc(ptable) # -1
  /\ Evictable(findproc(ptable)) # {}

\* the page table of the victim after its first findpage, the others untouched
AfterFirstFindpage ==
  [pgdir EXCEPT ![findproc(ptable)] = findpage(pgdir[findproc(ptable)]).pgd]

\* C17 as stated: when swappageout fails in swapout for want of a free slot,
\* swapout makes no further attempt: with every slot used the call makes one
\* attempt, and no entry changes beyond what the first findpage did.
C17_EndsEarly ==
  [][SlotTableFull =>
       /\ last'.nattempts = 1
       /\ pgdir' = AfterFirstFindpage]_vars

\* C17 (amended): a failure of swappageout for want of a free slot does not
\* end the loop of swapout: with every slot used the call makes 2 * batch
\* attempts, all failing; it evicts nothing, leaves the slot table as it was
\* and changes no entry beyond what the first findpage did.
C17_KeepsTrying ==
  [][SlotTableFull =>
       /\ last'.nattempts = 2 * npages_to_swap
       /\ last'.nevicted = 0
       /\ swap_area' = swap_area
       /\ freelist' = freelist
       /\ pgdir' = AfterFirstFindpage]_vars

\* swapout has run against a full slot table with a resident page to evict
C17_Witness ==
  /\ last.op = "checkAswap" /\ last.nswapout = 1
  /\ last.nevicted = 0 /\ last.nattempts = 2 * NpagesInit
  /\ npages_to_swap = NextNpages(NpagesInit)
  /\ FreeSlots = {}
  /\ Evictable(0) # {}

(***************************************************************************)
(* swapout and swappageout run by several CPUs at once, one step per       *)
(* statement: the loop test with findpage, findslot (a critical section of *)
(* swap_area.lock), the walk, acquire, the store of page_perm, release,    *)
(* each block write, the store of the PTE, lcr3, and the bookkeeping of    *)
(* swapout after the call.                                                 *)
(***************************************************************************)
\* the kernel variables take the values of the record k
SetK(k) ==
  /\ swap_area' = k.swap_area
  /\ disk' = k.disk
  /\ pgdir' = k.pgdir
  /\ physmem' = k.physmem
  /\ freelist' = k.freelist
  /\ ptable' = k.ptable
  /\ threshold' = k.threshold
  /\ npages_to_swap' = k.npages_to_swap
  /\ snap' = k.snap

Goto(t, label) == pc' = [pc EXCEPT ![t] = label]

\* swapout(): findproc
SoCall(t) ==
  /\ pc[t] = "idle"
  /\ LET victim == findproc(ptable)
     IN  /\ loc' = [loc EXCEPT ![t] = [Loc0 EXCEPT !.victim = victim]]
         /\ Goto(t, IF victim = -1 THEN "idle" ELSE "so_loop")
  /\ UNCHANGED << kvars, lock, idx, holder >>

\* the loop test, and findpage when it passes; swapout returns when the test
\* fails or findpage answers 0
SoLoop(t) ==
  /\ pc[t] = "so_loop"
  /\ IF loc[t].swapped < npages_to_swap /\ loc[t].attempts < npages_to_swap * 2
       THEN LET f == findpage(pgdir[loc[t].victim])
            IN  /\ pgdir' = [pgdir EXCEPT ![loc[t].victim] = f.pgd]
                /\ IF f.pa = 0
                     THEN /\ loc' = [loc EXCEPT ![t] = Loc0]
                          /\ Goto(t, "idle")
                     ELSE /\ loc' = [loc EXCEPT ![t].va = f.va, ![t].pa = f.pa,
                                                ![t].slot = -1, ![t].i = 0,
                                                ![t].ev = << >>]
                          /\ Goto(t, "po_findslot")
       ELSE /\ loc' = [loc EXCEPT ![t] = Loc0]
            /\ Goto(t, "idle")
            /\ UNCHANGED pgdir
  /\ UNCHANGED << swap_area, disk, physmem, freelist, ptable, threshold,
                  npages_to_swap, snap, last, lock, idx, holder >>

\* swappageout: slot_index = findslot(), return -1 when it is negative
PoFindslot(t) ==
  /\ pc[t] = "po_findslot"
  /\ lock = 0
  /\ LET r == findslot(K)
     IN  IF r.ret < 0
           THEN /\ Goto(t, "so_next")
                /\ UNCHANGED << swap_area, loc, holder >>
           ELSE /\ swap_area' = r.k.swap_area
                /\ loc' = [loc EXCEPT ![t].slot = r.ret]
                /\ holder' = [holder EXCEPT ![r.ret] = t]
                /\ Goto(t, "po_walk")
  /\ UNCHANGED << disk, pgdir, physmem, freelist, ptable, threshold,
                  npages_to_swap, snap, last, lock, idx >>

\* walkpgdir and the test of the entry
PoWalk(t) ==
  /\ pc[t] = "po_walk"
  /\ LET pte == walkpgdir(pgdir[loc[t].victim], loc[t].va)
     IN  Goto(t, IF pte = NoPTE \/ ~HasBit(pte, PTE_P) THEN "so_next"
                 ELSE "po_acquire")
  /\ UNCHANGED << kvars, lock, idx, holder, loc >>

PoAcquire(t) ==
  /\ pc[t] = "po_acquire"
  /\ acquire(t)
  /\ Goto(t, "po_perm")
  /\ UNCHANGED << kvars, idx, holder, loc >>

\* slots[slot_index].page_perm = *pte & 0xFFF
PoPerm(t) ==
  /\ pc[t] = "po_perm"
  /\ swap_area' = [swap_area EXCEPT ![loc[t].slot].page_perm =
                     PTE_FLAGS(walkpgdir(pgdir[loc[t].victim], loc[t].va))]
  /\ loc' = [loc EXCEPT ![t].ev = Append(@, "perm")]
  /\ Goto(t, "po_release")
  /\ UNCHANGED << disk, pgdir, physmem, freelist, ptable, threshold,
                  npages_to_swap, snap, last, lock, idx, holder >>

\* (variant) the lock kept over the block writes
PoReleaseKeep(t) ==
  /\ pc[t] = "po_release"
  /\ loc' = [loc EXCEPT ![t].i = 0]
  /\ Goto(t, "po_write")
  /\ UNCHANGED << kvars, lock, idx, holder >>

PoRelease(t) ==
  /\ pc[t] = "po_release"
  /\ release(t)
  /\ loc' = [loc EXCEPT ![t].i = 0]
  /\ Goto(t, "po_write")
  /\ UNCHANGED << kvars, idx, holder >>

\* one iteration of the write loop: block blockno + i takes part i of the page
PoWrite(t) ==
  /\ pc[t] = "po_write"
  /\ disk' = [disk EXCEPT ![SWAPBASE + loc[t].slot * NBLK + loc[t].i] =
                physmem[P2V(loc[t].pa)][loc[t].i]]
  /\ loc' = [loc EXCEPT ![t].i = @ + 1, ![t].ev = Append(@, "write")]
  /\ Goto(t, IF loc[t].i + 1 < NBLK THEN "po_write" ELSE "po_pte")
  /\ UNCHANGED << swap_area, pgdir, physmem, freelist, ptable, threshold,
                  npages_to_swap, snap, last, lock, idx, holder >>

\* *pte = (slot_index << 12) | ((*pte) & ~PTE_P & 0xFFF)
PoPte(t) ==
  /\ pc[t] = "po_pte"
  /\ pgdir' = [pgdir EXCEPT ![loc[t].victim][loc[t].va \div PGSIZE] =
                 loc[t].slot * PGSIZE + ClearBit(PTE_FLAGS(@), PTE_P)]
  /\ loc' = [loc EXCEPT ![t].ev = Append(@, "pte")]
  /\ Goto(t, "po_flush")
  /\ UNCHANGED << swap_area, disk, physmem, freelist, ptable, threshold,
                  npages_to_swap, snap, last, lock, idx, holder >>

\* lcr3(V2P(pgdir)) and return 0
PoFlush(t) ==
  /\ pc[t] = "po_flush"
  /\ loc' = [loc EXCEPT ![t].ev = Append(@, "flush")]
  /\ Goto(t, "so_success")
  /\ UNCHANGED << kvars, lock, idx, holder >>

\* swapout after a call that returned 0: rss--, kfree, swapped++, attempts++
SoSuccess(t) ==
  /\ pc[t] = "so_success"
  /\ SetK(kfree([K EXCEPT !.ptable[loc[t].victim].rss = @ - 1], P2V(loc[t].pa)))
  /\ loc' = [loc EXCEPT ![t] = [Loc0 EXCEPT !.victim = loc[t].victim,
                                          !.swapped = loc[t].swapped + 1,
                                          !.attempts = loc[t].attempts + 1]]
  /\ Goto(t, "so_loop")
  /\ UNCHANGED << last, lock, idx, holder >>

\* swapout after a call that returned -1: attempts++
SoNext(t) ==
  /\ pc[t] = "so_next"
  /\ loc' = [loc EXCEPT ![t] = [Loc0 EXCEPT !.victim = loc[t].victim,
                                          !.swapped = loc[t].swapped,
                                          !.attempts = loc[t].attempts + 1]]
  /\ Goto(t, "so_loop")
  /\ UNCHANGED << kvars, lock, idx, holder >>

InitEvict ==
  /\ \E c \in InitLayouts : pgdir = InitPgdir(c)
  /\ freelist = << >>
  /\ threshold = ThresholdInit
  /\ npages_to_swap = NpagesInit
  /\ InitMemory

NextEvict ==
  \E t \in Threads :
    \/ SoCall(t)
    \/ SoLoop(t)
    \/ PoFindslot(t)
    \/ PoWalk(t)
    \/ PoAcquire(t)
    \/ PoPerm(t)
    \/ PoRelease(t)
    \/ PoWrite(t)
    \/ PoPte(t)
    \/ PoFlush(t)
    \/ SoSuccess(t)
    \/ SoNext(t)

SpecEvict == InitEvict /\ [][NextEvict]_vars

(***************************************************************************)
(* Properties of concurrent evictions (SpecEvict).                         *)
(***************************************************************************)
\* no thread is inside a call
Quiescent == \A t \in Threads : pc[t] = "idle"

\* no frame is on the free list twice
FreeOnce ==
  \A i \in 1 .. Len(freelist) : \A j \in 1 .. Len(freelist) :
    i # j => freelist[i] # freelist[j]

\* the slots that swapped entries name
NamedSlots == { SlotOf(pgdir[x[1]][x[2]]) : x \in SwappedPTEs }

\* C20: when two executions of swapout on different CPUs choose the same
\* victim, each resident page is evicted by at most one of them: no frame is
\* passed to kfree twice, and once both have returned the rss of every process
\* has fallen by one per page of it that became swapped and every used slot is
\* named by a swapped entry.
C20_EvictedOnce ==
  /\ FreeOnce
  /\ Quiescent =>
       /\ \A p \in Procs : ptable[p].rss = Cardinality(Evictable(p))
       /\ UsedSlots \subseteq NamedSlots

\* the parts of C20 one at a time
C20_FreeOnce == FreeOnce

C20_RssOnce ==
  Quiescent => \A p \in Procs : ptable[p].rss = Cardinality(Evictable(p))

C20_NoOrphanSlot == Quiescent => UsedSlots \subseteq NamedSlots

(***************************************************************************)
(* One execution of swapout at a time, step by step, while the other CPUs  *)
(* call findslot.                                                          *)
(***************************************************************************)
InSwapout(t) ==
  pc[t] \in { "so_loop", "so_next", "so_success", "po_findslot", "po_walk",
              "po_acquire", "po_perm", "po_release", "po_write", "po_pte",
              "po_flush" }

NextOrder ==
  \E t \in Threads :
    \/ SoCall(t) /\ \A u \in Threads \ {t} : ~InSwapout(u)
    \/ SoLoop(t)
    \/ PoFindslot(t)
    \/ PoWalk(t)
    \/ PoAcquire(t)
    \/ PoPerm(t)
    \/ PoRelease(t)
    \/ PoWrite(t)
    \/ PoPte(t)
    \/ PoFlush(t)
    \/ SoSuccess(t)
    \/ SoNext(t)
    \/ FsCall(t)
    \/ FsAcquire(t)
    \/ FsLoop(t)
    \/ FsMark(t)
    \/ FsFound(t)
    \/ FsFail(t)

SpecOrder == InitEvict /\ [][NextOrder]_vars

\* the events of a call of swappageout that returns 0
EvictionEvents ==
  << "perm" >> \o [i \in 1 .. NBLK |-> "write"] \o << "pte", "flush" >>

\* the entry swappageout of thread t is working on
EntryOf(t) == walkpgdir(pgdir[loc[t].victim], loc[t].va)

\* between the test of the entry and the store to it the entry is present,
\* and from the release on the thread does not hold swap_area.lock
EvictionState(t) ==
  /\ pc[t] \in { "po_acquire", "po_perm", "po_release", "po_write", "po_pte" }
       => IsPresent(EntryOf(t))
  /\ pc[t] \in { "po_write", "po_pte", "po_flush", "so_success" } => lock # t

\* C19: a call of swappageout that succeeds stores the flags in
\* slots[i].page_perm, then writes the 8 blocks, then overwrites the entry,
\* then flushes the TLB; the entry is present until the 8 writes are done; and
\* the thread does not hold swap_area.lock while it writes a block or the
\* entry.
C19_EvictionOrder ==
  [][\A t \in Threads :
       /\ EvictionState(t)
       /\ pc[t] = "po_write" /\ loc'[t].i # loc[t].i =>
            /\ lock # t /\ lock' # t
            /\ loc[t].ev = SubSeq(EvictionEvents, 1, 1 + loc[t].i)
            /\ pgdir' = pgdir
            /\ swap_area' = swap_area
       /\ pc[t] = "po_pte" /\ pc'[t] # pc[t] =>
            /\ lock # t /\ lock' # t
            /\ loc[t].ev = SubSeq(EvictionEvents, 1, 1 + NBLK)
            /\ disk' = disk
            /\ IsSwapped(walkpgdir(pgdir'[loc[t].victim], loc[t].va))
       /\ pc[t] = "po_flush" /\ pc'[t] # pc[t] =>
            /\ loc'[t].ev = EvictionEvents
            /\ kvars' = kvars]_vars

\* a call of swappageout has returned 0 while another CPU was inside findslot
C19_Witness ==
  \E t \in Threads :
    /\ pc[t] = "so_success"
    /\ loc[t].ev = EvictionEvents
    /\ \E u \in Threads \ {t} : lock = u

(***************************************************************************)
(* swappage_in run by several CPUs at once, one step per statement; the    *)
(* read loop is one step, and so are kalloc with its retry and freeslot.   *)
(***************************************************************************)
Returned(op, ret) ==
  [op |-> op, ret |-> ret, va |-> -1, nswapout |-> 0, nevicted |-> 0,
   swept |-> FALSE, before |-> 0, nattempts |-> 0]

\* the thread leaves its call with the value ret
Return(t, op, ret) ==
  /\ last' = Returned(op, ret)
  /\ loc' = [loc EXCEPT ![t] = Loc0]
  /\ Goto(t, "idle")

\* page fault of process p on page n: trap calls swappage_in(p->pgdir, va)
PiCall(t, p, n) ==
  /\ pc[t] = "idle"
  /\ Alive(p)
  /\ pgdir[p][n] # 0
  /\ loc' = [loc EXCEPT ![t] = [Loc0 EXCEPT !.p = p, !.va = n * PGSIZE]]
  /\ Goto(t, "pi_walk")
  /\ UNCHANGED << kvars, lock, idx, holder >>

\* walkpgdir, the test of the pointer and the test of PTE_P
PiWalk(t) ==
  /\ pc[t] = "pi_walk"
  /\ LET pte == walkpgdir(pgdir[loc[t].p], loc[t].va)
     IN  IF pte = NoPTE THEN Return(t, "swappage_in", -1)
         ELSE IF HasBit(pte, PTE_P) THEN Return(t, "swappage_in", 0)
         ELSE /\ loc' = [loc EXCEPT ![t].pte = pte]
              /\ Goto(t, "pi_slot")
              /\ UNCHANGED last
  /\ UNCHANGED << swap_area, disk, pgdir, physmem, freelist, ptable, threshold,
                  npages_to_swap, snap, lock, idx, holder >>

\* slot_index = PTE_ADDR(*pte) >> 12 and the test of the slot.  *pte is read
\* without synchronisation: the value is the one the test of PTE_P saw or the
\* one in memory now
PiSlot(t) ==
  /\ pc[t] = "pi_slot"
  /\ \E v \in { loc[t].pte, walkpgdir(pgdir[loc[t].p], loc[t].va) } :
     LET slot_index == PTE_ADDR(v) \div PGSIZE
     IN  IF ~InTable(swap_area, slot_index) \/ swap_area[slot_index].is_free = 1
           THEN Return(t, "swappage_in", -1)
           ELSE /\ loc' = [loc EXCEPT ![t].slot = slot_index]
                /\ Goto(t, "pi_alloc")
                /\ UNCHANGED last
  /\ UNCHANGED << swap_area, disk, pgdir, physmem, freelist, ptable, threshold,
                  npages_to_swap, snap, lock, idx, holder >>

\* kalloc, and checkAswap with a second kalloc when it fails
PiAlloc(t) ==
  /\ pc[t] = "pi_alloc"
  /\ freelist # << >> \/ lock = 0
  /\ LET a == AllocRetry(K)
     IN  /\ SetK(a.k)
         /\ IF a.mem = 0 THEN Return(t, "swappage_in", -1)
            ELSE /\ loc' = [loc EXCEPT ![t].mem = a.mem]
                 /\ Goto(t, "pi_read")
                 /\ UNCHANGED last
  /\ UNCHANGED << lock, idx, holder >>

\* the loop reading the 8 blocks of the slot into the frame
PiRead(t) ==
  /\ pc[t] = "pi_read"
  /\ physmem' = [physmem EXCEPT ![loc[t].mem] =
                   ReadPage(disk, SWAPBASE + loc[t].slot * NBLK)]
  /\ Goto(t, "pi_acquire")
  /\ UNCHANGED << swap_area, disk, pgdir, freelist, ptable, threshold,
                  npages_to_swap, snap, last, lock, idx, holder, loc >>

PiAcquire(t) ==
  /\ pc[t] = "pi_acquire"
  /\ acquire(t)
  /\ Goto(t, "pi_perm")
  /\ UNCHANGED << kvars, idx, holder, loc >>

\* perm = slots[slot_index].page_perm
PiPerm(t) ==
  /\ pc[t] = "pi_perm"
  /\ loc' = [loc EXCEPT ![t].perm = swap_area[loc[t].slot].page_perm]
  /\ Goto(t, "pi_release")
  /\ UNCHANGED << kvars, lock, idx, holder >>

PiRelease(t) ==
  /\ pc[t] = "pi_release"
  /\ release(t)
  /\ Goto(t, "pi_map")
  /\ UNCHANGED << kvars, idx, holder, loc >>

\* perm |= PTE_P and mappages; kfree and return -1 when it fails
PiMap(t) ==
  /\ pc[t] = "pi_map"
  /\ LET m == mappages(K, loc[t].p, loc[t].va, V2P(loc[t].mem),
                       SetBit(loc[t].perm, PTE_P))
     IN  IF m.ret < 0
           THEN /\ SetK(kfree(K, loc[t].mem))
                /\ Return(t, "swappage_in", -1)
           ELSE /\ SetK(m.k)
                /\ Goto(t, "pi_free")
                /\ UNCHANGED << last, loc >>
  /\ UNCHANGED << lock, idx, holder >>

\* freeslot(slot_index), a critical section of swap_area.lock
PiFree(t) ==
  /\ pc[t] = "pi_free"
  /\ lock = 0
  /\ SetK(freeslot(K, loc[t].slot))
  /\ Goto(t, "pi_rss")
  /\ UNCHANGED << last, lock, idx, holder, loc >>

\* myproc()->rss++ and return 0
PiRss(t) ==
  /\ pc[t] = "pi_rss"
  /\ ptable' = [ptable EXCEPT ![loc[t].p].rss = @ + 1]
  /\ Return(t, "swappage_in", 0)
  /\ UNCHANGED << swap_area, disk, pgdir, physmem, freelist, threshold,
                  npages_to_swap, snap, lock, idx, holder >>

\* process 0 (pid 1) with page 0 in slot 0 and page 1 absent, resident or in
\* slot 1; every frame that is not mapped is free
FaultsKinds ==
  { 0, V2P(1) + PTE_P + PTE_W + PTE_U, PGSIZE + PTE_U }

InitFaults ==
  /\ \E e \in FaultsKinds :
       pgdir = [p \in Procs |-> [n \in PageNos |->
         IF n \notin UserPageNos THEN PTE_P + PTE_W
         ELSE IF p = 0 /\ n = 0 THEN PTE_W + PTE_U
         ELSE IF p = 0 /\ n = 1 THEN e
         ELSE 0]]
  /\ swap_area = [s \in Slots |->
       IF s \in NamedSlots
         THEN [page_perm |-> PTE_FLAGS(pgdir[0][s]) + PTE_P, is_free |-> 0]
         ELSE [page_perm |-> 0, is_free |-> 1]]
  /\ disk = [b \in BlockNos |-> b % 3]
  /\ physmem = [f \in Frames |->
       IF f \in Mapped(pgdir) THEN BootPage(f) ELSE JunkPage]
  /\ freelist = Ascending(Frames \ Mapped(pgdir), 1)
  /\ threshold = ThresholdInit
  /\ npages_to_swap = NpagesInit
  /\ ptable = [p \in Procs |->
       IF p = 0
         THEN [state |-> "RUNNABLE", pid |-> 1,
               rss |-> Cardinality({ n \in UserPageNos : Candidate(pgdir[p][n]) })]
         ELSE [state |-> "UNUSED", pid |-> 0, rss |-> 0]]
  /\ snap = [p \in Procs |-> [n \in UserPageNos |-> NoSnap]]
  /\ last = Returned("boot", 0)
  /\ InitTvars

NextFaults ==
  \E t \in Threads :
    \/ \E n \in UserPageNos : PiCall(t, 0, n)
    \/ PiWalk(t)
    \/ PiSlot(t)
    \/ PiAlloc(t)
    \/ PiRead(t)
    \/ PiAcquire(t)
    \/ PiPerm(t)
    \/ PiRelease(t)
    \/ PiMap(t)
    \/ PiFree(t)
    \/ PiRss(t)

SpecFaults == InitFaults /\ [][NextFaults]_vars

\* the kernel's own variables, without the history
kstate ==
  << swap_area, disk, pgdir, physmem, freelist, ptable, threshold,
     npages_to_swap, snap >>

\* every frame is on the free list or mapped
NoFrameLost ==
  { freelist[i] : i \in 1 .. Len(freelist) } \cup Mapped(pgdir) = Frames

\* C18: swappage_in on an entry that is present returns 0 and changes
\* nothing; and when calls for one swapped page interleave, all of them return
\* 0, one frame ends up mapped and none is lost, the slot is released once and
\* the rss of the process is raised once.
C18_FaultIdempotent ==
  [][/\ \A t \in Threads :
          pc[t] = "pi_walk" /\ pc'[t] = "idle"
            /\ IsPresent(walkpgdir(pgdir[loc[t].p], loc[t].va)) =>
               last'.ret = 0 /\ kstate' = kstate
     /\ last'.op = "swappage_in" /\ last' # last
          /\ (\E t \in Threads : pc[t] # "idle" /\ pc'[t] = "idle"
                /\ walkpgdir(pgdir[loc[t].p], loc[t].va) # NoPTE) =>
            last'.ret = 0
     /\ Quiescent' =>
          /\ NoFrameLost' /\ FreeOnce'
          /\ ptable'[0].rss = Cardinality({ n \in UserPageNos : Candidate(pgdir'[0][n]) })
          /\ UsedSlots' = NamedSlots']_vars

\* the part of C18 about an entry that is already present
C18_PresentEntry ==
  [][\A t \in Threads :
       pc[t] = "pi_walk" /\ pc'[t] = "idle"
         /\ IsPresent(walkpgdir(pgdir[loc[t].p], loc[t].va)) =>
            last'.ret = 0 /\ kstate' = kstate]_vars

(***************************************************************************)
(* duplicateslot run by several CPUs at once, one step per statement,      *)
(* while other CPUs call findslot.  findslot and checkAswap inside         *)
(* duplicateslot are one step each; one duplicateslot runs at a time, the  *)
(* other CPUs run findslot step by step.                                   *)
(***************************************************************************)
\* thread t holds a child slot: findslot has returned it and duplicateslot has
\* not returned yet
Copying(t) ==
  pc[t] \in { "du_acquire", "du_perm", "du_release", "du_copy", "du_ret" }

InDuplicate(t) == Copying(t) \/ pc[t] \in { "du_findslot", "du_swap" }

\* the test of parent_slot; the call starts when no other duplicateslot runs
DuCall(t, parent_slot) ==
  /\ pc[t] = "idle"
  /\ \A u \in Threads : ~InDuplicate(u)
  /\ IF ~InTable(swap_area, parent_slot) \/ swap_area[parent_slot].is_free = 1
       THEN Return(t, "duplicateslot", -1)
       ELSE /\ loc' = [loc EXCEPT ![t] = [Loc0 EXCEPT !.parent = parent_slot]]
            /\ Goto(t, "du_findslot")
            /\ UNCHANGED last
  /\ UNCHANGED << swap_area, disk, pgdir, physmem, freelist, ptable, threshold,
                  npages_to_swap, snap, lock, idx, holder >>

\* (variant) findslot answering with the free slot without marking it used
DuFindslotNoMark(t) ==
  /\ pc[t] = "du_findslot"
  /\ lock = 0
  /\ LET r == findslot(K)
     IN  IF r.ret >= 0
           THEN /\ loc' = [loc EXCEPT ![t].slot = r.ret]
                /\ holder' = [holder EXCEPT ![r.ret] = t]
                /\ Goto(t, "du_acquire")
                /\ UNCHANGED last
           ELSE IF loc[t].attempts < 2
             THEN /\ Goto(t, "du_swap")
                  /\ UNCHANGED << last, loc, holder >>
             ELSE /\ Return(t, "duplicateslot", -1)
                  /\ UNCHANGED holder
  /\ UNCHANGED << swap_area, disk, pgdir, physmem, freelist, ptable, threshold,
                  npages_to_swap, snap, lock, idx >>

\* child_slot = findslot(): the first call and the two after checkAswap
DuFindslot(t) ==
  /\ pc[t] = "du_findslot"
  /\ lock = 0
  /\ LET r == findslot(K)
     IN  IF r.ret >= 0
           THEN /\ swap_area' = r.k.swap_area
                /\ loc' = [loc EXCEPT ![t].slot = r.ret]
                /\ holder' = [holder EXCEPT ![r.ret] = t]
                /\ Goto(t, "du_acquire")
                /\ UNCHANGED last
           ELSE IF loc[t].attempts < 2
             THEN /\ Goto(t, "du_swap")
                  /\ UNCHANGED << swap_area, last, loc, holder >>
             ELSE /\ Return(t, "duplicateslot", -1)
                  /\ UNCHANGED << swap_area, holder >>
  /\ UNCHANGED << disk, pgdir, physmem, freelist, ptable, threshold,
                  npages_to_swap, snap, lock, idx >>

\* checkAswap() before the next findslot
DuSwap(t) ==
  /\ pc[t] = "du_swap"
  /\ lock = 0
  /\ SetK(checkAswap(K))
  /\ loc' = [loc EXCEPT ![t].attempts = @ + 1]
  /\ Goto(t, "du_findslot")
  /\ UNCHANGED << last, lock, idx, holder >>

DuAcquire(t) ==
  /\ pc[t] = "du_acquire"
  /\ acquire(t)
  /\ Goto(t, "du_perm")
  /\ UNCHANGED << kvars, idx, holder, loc >>

\* slots[child_slot].page_perm = slots[parent_slot].page_perm
DuPerm(t) ==
  /\ pc[t] = "du_perm"
  /\ swap_area' = [swap_area EXCEPT ![loc[t].slot].page_perm =
                     swap_area[loc[t].parent].page_perm]
  /\ Goto(t, "du_release")
  /\ UNCHANGED << disk, pgdir, physmem, freelist, ptable, threshold,
                  npages_to_swap, snap, last, lock, idx, holder, loc >>

DuRelease(t) ==
  /\ pc[t] = "du_release"
  /\ release(t)
  /\ loc' = [loc EXCEPT ![t].i = 0]
  /\ Goto(t, "du_copy")
  /\ UNCHANGED << kvars, idx, holder >>

\* one iteration of the copy loop: block child_blockno + i takes the content
\* of block parent_blockno + i
DuCopy(t) ==
  /\ pc[t] = "du_copy"
  /\ disk' = [disk EXCEPT ![SWAPBASE + loc[t].slot * NBLK + loc[t].i] =
                disk[SWAPBASE + loc[t].parent * NBLK + loc[t].i]]
  /\ loc' = [loc EXCEPT ![t].i = @ + 1]
  /\ Goto(t, IF loc[t].i + 1 < NBLK THEN "du_copy" ELSE "du_ret")
  /\ UNCHANGED << swap_area, pgdir, physmem, freelist, ptable, threshold,
                  npages_to_swap, snap, last, lock, idx, holder >>

\* return child_slot
DuRet(t) ==
  /\ pc[t] = "du_ret"
  /\ Return(t, "duplicateslot", loc[t].slot)
  /\ UNCHANGED << swap_area, disk, pgdir, physmem, freelist, ptable, threshold,
                  npages_to_swap, snap, lock, idx, holder >>

InitDup ==
  /\ pgdir = InitPgdir(0)
  /\ swap_area \in [Slots -> FaultSlots]
  /\ disk = [b \in BlockNos |-> b % 3]
  /\ physmem = [f \in Frames |->
       IF f \in Mapped(pgdir) THEN BootPage(f) ELSE JunkPage]
  /\ freelist = << >>
  /\ threshold = FixThreshold(ThresholdInit)
  /\ npages_to_swap = FixNpages(NpagesInit)
  /\ ptable = [p \in Procs |->
       IF p \in InitProcs
         THEN [state |-> "RUNNABLE", pid |-> p + 1,
               rss |-> Cardinality({ n \in UserPageNos : Candidate(pgdir[p][n]) })]
         ELSE [state |-> "UNUSED", pid |-> 0, rss |-> 0]]
  /\ snap = [p \in Procs |-> [n \in UserPageNos |-> NoSnap]]
  /\ last = Returned("boot", 0)
  /\ lock = 0
  /\ pc = [t \in Threads |-> "idle"]
  /\ idx = [t \in Threads |-> 0]
  /\ holder = [s \in Slots |-> IF swap_area[s].is_free = 1 THEN 0 ELSE -1]
  /\ loc = [t \in Threads |-> Loc0]

NextDup ==
  \E t \in Threads :
    \/ \E parent_slot \in -1 .. NSLOTS : DuCall(t, parent_slot)
    \/ DuFindslot(t)
    \/ DuSwap(t)
    \/ DuAcquire(t)
    \/ DuPerm(t)
    \/ DuRelease(t)
    \/ DuCopy(t)
    \/ DuRet(t)
    \/ FsCall(t)
    \/ FsAcquire(t)
    \/ FsLoop(t)
    \/ FsMark(t)
    \/ FsFound(t)
    \/ FsFail(t)

SpecDup == InitDup /\ [][NextDup]_vars

\* the 8 blocks of slot s
BlocksOf(d, s) == [i \in Blk |-> d[SWAPBASE + s * NBLK + i]]


\* C11: when duplicateslot(parent) returns c >= 0, c is another slot than
\* parent, it is marked used, its page_perm and its 8 blocks equal those of
\* parent; no step taken while the call runs changes the state, the perm or the
\* blocks of parent; and c is marked used from the moment findslot returned
\* it, before the first block is written, so that no findslot of another CPU
\* returns c while the copy runs.
C11_Duplicate ==
  [][\A t \in Threads :
       /\ pc[t] = "du_ret" /\ pc'[t] = "idle" =>
            /\ last'.op = "duplicateslot" /\ last'.ret = loc[t].slot
            /\ loc[t].slot \in Slots \ {loc[t].parent}
            /\ swap_area'[loc[t].slot].is_free = 0
            /\ swap_area'[loc[t].slot].page_perm = swap_area'[loc[t].parent].page_perm
            /\ BlocksOf(disk', loc[t].slot) = BlocksOf(disk', loc[t].parent)
       /\ InDuplicate(t) =>
            /\ swap_area'[loc[t].parent] = swap_area[loc[t].parent]
            /\ swap_area[loc[t].parent].is_free = 0
            /\ BlocksOf(disk', loc[t].parent) = BlocksOf(disk, loc[t].parent)
       /\ Copying(t) =>
            /\ swap_area[loc[t].slot].is_free = 0
            /\ holder[loc[t].slot] = t
            /\ holder'[loc[t].slot] = t]_vars

\* a copy is complete while the findslot of another CPU has found no free slot
C11_Witness ==
  \E t \in Threads :
    /\ pc[t] = "du_ret"
    /\ BlocksOf(disk, loc[t].slot) = BlocksOf(disk, loc[t].parent)
    /\ \E u \in Threads \ {t} : pc[u] = "fs_fail"

====
